---------------------------- MODULE Spec2Model ----------------------------
(***************************************************************************)
(* A model of the daily digest generator: the summariser/reviewer graph of *)
(* email_script.py with the delivery that follows it, the Reddit           *)
(* acquisition layer of reddit_utils.py, the per-topic search and          *)
(* relevance filter of main, the scrape and summarize stages, and main     *)
(* from its start to the delivery.  External services (the LLM, the        *)
(* scraping proxy, the search API, the mail API) are the environment:      *)
(* every answer they can give is a nondeterministic choice of the action   *)
(* that calls them.                                                        *)
(***************************************************************************)
EXTENDS Integers, Sequences, FiniteSets, TLC

VARIABLES
    \* ---- the review graph and the delivery (email_script.py) ----
    pc,                 \* position of main in and after graph.invoke
    messages,           \* State.messages: the stored conversation
    approved,           \* State.approved
    created_summaries,  \* State.created_summaries
    calls,              \* every LLM chain invocation so far: input and output
    dry_run,            \* args.dry_run
    stdout,             \* the drafts printed by main
    emails,             \* the send attempts made through resend.Emails.send
    \* ---- the Reddit acquisition layer (reddit_utils.py) ----
    r_pc,               \* position of get_top_posts_with_comments
    legacy,             \* called through get_top_post_with_comments
    num_posts,          \* argument num_posts
    num_comments,       \* argument num_comments
    data,               \* the proxy's answer to the latest request
    posts,              \* the posts the search returned
    results,            \* the results collected by the loop over posts
    requests,           \* every request sent to the proxy so far
    ret,                \* what the called function returned
    \* ---- main's loop over the topics (email_script.py) ----
    m_pc,               \* position of main in its loop over config["topics"]
    quick,              \* args.quick
    max_results,        \* args.max_results
    topic,              \* index of the topic being processed
    serper_response,    \* the search API's answer to the topic's search
    search_results,     \* results: what search_serper returned for the topic
    llm_verdicts,       \* the ids of the verdicts as the relevance LLM gave them
    relevant_ids,       \* the ids of the truncated relevance verdicts
    filtered_results,   \* the results of the topic carried forward
    relevant_results,   \* the results carried forward for all topics so far
    \* ---- the scrape and summarize stages (email_script.py) ----
    item,               \* index of the item the running stage handles next
    markdown_contents,  \* what scrape_and_save_markdown has collected
    summaries,          \* what generate_summaries has collected
    scrape_log,         \* how the scrape of each item handled so far went
    summary_log,        \* how the summary of each page handled so far went
    written,            \* the path of every file written so far
    \* ---- main from its start to the delivery (email_script.py) ----
    run_pc,             \* position of main among its calls
    env,                \* the environment variables that are set
    net,                \* the services called over the network so far
    steps,              \* the generation steps completed so far
    sizes               \* the length of each list main holds

graphVars == <<pc, messages, approved, created_summaries, calls, dry_run,
               stdout, emails>>

redditVars == <<r_pc, legacy, num_posts, num_comments, data,
                posts, results, requests, ret>>

mainVars == <<m_pc, quick, max_results, topic, serper_response, search_results,
              llm_verdicts, relevant_ids, filtered_results, relevant_results>>

stageVars == <<item, markdown_contents, summaries, scrape_log, summary_log,
               written>>

runVars == <<run_pc, env, net, steps, sizes>>

vars == <<graphVars, redditVars, mainVars, stageVars, runVars>>

----------------------------------------------------------------------------
(* Bounds of the model.                                                    *)

\* summariser runs explored per graph.invoke
MaxRevisions == 3
\* length of the conversations handed to a single reviewer run
MaxConversation == 3
\* entries of the listing the proxy returns for a Reddit search
MaxHits == 3
\* entries of the comment listing the proxy returns for a post
MaxComments == 2
\* largest num_comments argument explored
MaxNumComments == 2
\* organic results the search API returns for one query
MaxOrganic == 3
\* verdicts the relevance LLM returns for one topic
MaxVerdicts == 2

----------------------------------------------------------------------------
(* Generic helpers.                                                        *)

Range(s) == {s[i] : i \in 1..Len(s)}

SeqsUpTo(S, n) == UNION {[1..k -> S] : k \in 0..n}

Min(a, b) == IF a < b THEN a ELSE b

Max(a, b) == IF a > b THEN a ELSE b

\* s[:n] of Python, for any integer n
PySlice(s, n) ==
    IF n >= 0 THEN SubSeq(s, 1, Min(n, Len(s)))
    ELSE SubSeq(s, 1, Max(Len(s) + n, 0))

----------------------------------------------------------------------------
(* The Reddit acquisition layer: reddit_utils.py.                          *)

\* num_posts of the legacy single-post entry point
LegacyNumPosts == 1
\* default num_posts of get_top_posts_with_comments
DefaultNumPosts == 3

Scores == {50, 90}
CommentScores == {10, 30}
Permalinks == {"", "/r/a/1/"}

NoResponse == [status |-> "none", shape |-> "none", children |-> <<>>]

\* a proxy answer: a transport error, an error status, or a 200 whose body
\* is not JSON ("invalid") or is JSON of the given shape
FailedResponses ==
    {[status |-> st, shape |-> "none", children |-> <<>>] :
        st \in {"transport_error", "429", "500"}}

Body(shape, children) == [status |-> "200", shape |-> shape, children |-> children]

\* search answers: no JSON, a JSON array, or a JSON object whose
\* data.children (absent: empty) holds the hits
SearchResponses ==
    FailedResponses
    \cup {Body("invalid", <<>>), Body("array", <<>>)}
    \cup {Body("object", c) :
            c \in SeqsUpTo([permalink : Permalinks, score : Scores], MaxHits)}

\* the children of a comment listing: comments (t1) and "more" stubs
CommentChildren ==
    [kind : {"t1"}, score : CommentScores] \cup {[kind |-> "more", score |-> 0]}

\* comment answers: no JSON, a nonzero JSON number, an array of fewer than
\* two elements ("short"), a longer array whose second element lacks
\* data.children ("malformed"), or the two-element listing
CommentResponses ==
    FailedResponses
    \cup {Body(sh, <<>>) : sh \in {"invalid", "number", "short", "malformed"}}
    \cup {Body("listing", c) :
            c \in SeqsUpTo(CommentChildren, MaxComments)}

\* x placed after every element whose score is at least its own
RECURSIVE InsertByScore(_, _)
InsertByScore(x, s) ==
    IF s = <<>> THEN <<x>>
    ELSE IF Head(s).score >= x.score THEN <<Head(s)>> \o InsertByScore(x, Tail(s))
    ELSE <<x>> \o s

\* the list left as the upstream ordered it
sort_by_score_skipped(s) == s

\* sorted(s, key=score, reverse=True): descending, equal scores keep their order
RECURSIVE sort_by_score(_)
sort_by_score(s) ==
    IF s = <<>> THEN <<>>
    ELSE InsertByScore(s[Len(s)], sort_by_score(SubSeq(s, 1, Len(s) - 1)))

Returned(value) == [raised |-> FALSE, value |-> value]

Raised == [raised |-> TRUE, value |-> <<>>]

\* every post given the score of a record synthesized without one
PostsOf_score_zero(children) ==
    LET linked == SelectSeq(children, LAMBDA child : child.permalink # "")
    IN [i \in 1..Len(linked) |->
          [url |-> "https://www.reddit.com" \o linked[i].permalink,
           score |-> 0]]

\* lines 60-72: one post per hit that carries a permalink
PostsOf(children) ==
    LET linked == SelectSeq(children, LAMBDA child : child.permalink # "")
    IN [i \in 1..Len(linked) |->
          [url |-> "https://www.reddit.com" \o linked[i].permalink,
           score |-> linked[i].score]]

\* search_reddit_via_scrapingfish on the proxy's answer, lines 52-78
search_reddit_via_scrapingfish(resp, num_results) ==
    IF resp.status # "200" \/ resp.shape = "invalid" THEN Returned(<<>>)
    ELSE IF resp.shape # "object" THEN Raised   \* data.get on a non-dict
    ELSE Returned(PySlice(sort_by_score(PostsOf(resp.children)), num_results))

\* lines 104-114: one comment per child of kind t1
CommentsOf(children) ==
    LET top == SelectSeq(children, LAMBDA child : child.kind = "t1")
    IN [i \in 1..Len(top) |-> [score |-> top[i].score]]

\* fetch_post_comments_via_scrapingfish on the proxy's answer, lines 91-122
fetch_post_comments_via_scrapingfish(resp, n_comments) ==
    IF resp.status # "200" \/ resp.shape = "invalid" THEN Returned(<<>>)
    ELSE IF resp.shape = "number" THEN Raised   \* len() of a number
    ELSE IF resp.shape \in {"short", "malformed"} THEN Returned(<<>>)
    ELSE Returned(PySlice(sort_by_score(CommentsOf(resp.children)), n_comments))

\* the requests one comment fetch sends, as the answers they get: the single
\* request of line 92, whatever its answer
fetch_requests(resp) == <<resp>>

\* a loop whose exception handler is missing: a raising fetch ends the call
after_post_unhandled(fetch_raised, done, total) ==
    IF fetch_raised THEN "raised"
    ELSE IF done < total THEN "loop" ELSE "returned"

\* lines 223-246: the loop goes on to the next post whatever the fetch did
after_post(fetch_raised, done, total) ==
    IF done < total THEN "loop" ELSE "returned"

\* what the entry point hands back: the list, or for the legacy entry point
\* its first element or None (lines 246, 255-256)
ReturnValue(res) ==
    IF ~legacy THEN [type |-> "list", value |-> res]
    ELSE IF res = <<>> THEN [type |-> "None", value |-> <<>>]
    ELSE [type |-> "dict", value |-> <<res[1]>>]

NoReturn == [type |-> "none", value |-> <<>>]

\* line 216 to 220: the search, and the early return when it found nothing
search ==
    /\ r_pc = "call"
    /\ \E resp \in SearchResponses :
         LET found == search_reddit_via_scrapingfish(resp, num_posts)
         IN /\ data' = resp
            /\ requests' = Append(requests, [endpoint |-> "search",
                                             url |-> "search.json",
                                             post |-> 0,
                                             status |-> resp.status,
                                             shape |-> resp.shape])
            /\ posts' = found.value
            /\ r_pc' = IF found.raised THEN "raised"
                       ELSE IF found.value = <<>> THEN "returned"
                       ELSE "loop"
            /\ ret' = IF ~found.raised /\ found.value = <<>>
                      THEN ReturnValue(<<>>) ELSE ret
    /\ UNCHANGED <<legacy, num_posts, num_comments, results>>
    /\ UNCHANGED <<graphVars, mainVars, stageVars, runVars>>

\* lines 223-246: one iteration of the loop over posts, and the return after
\* the last one
fetch_comments ==
    /\ r_pc = "loop"
    /\ \E resp \in CommentResponses :
         LET post == posts[Len(results) + 1]
             fetched == fetch_post_comments_via_scrapingfish(resp, num_comments)
             sent == fetch_requests(resp)
         IN /\ data' = resp
            /\ requests' = requests \o
                 [k \in 1..Len(sent) |-> [endpoint |-> "comments",
                                          url |-> post.url,
                                          post |-> Len(results) + 1,
                                          status |-> sent[k].status,
                                          shape |-> sent[k].shape]]
            /\ results' = Append(results,
                 [post |-> post,
                  comments |-> IF fetched.raised THEN <<>> ELSE fetched.value])
            /\ r_pc' = after_post(fetched.raised, Len(results'), Len(posts))
            /\ ret' = IF r_pc' = "returned" THEN ReturnValue(results') ELSE ret
    /\ UNCHANGED <<legacy, num_posts, num_comments, posts>>
    /\ UNCHANGED <<graphVars, mainVars, stageVars, runVars>>

RedditIdle ==
    /\ r_pc = "idle"
    /\ legacy = FALSE
    /\ num_posts = 0
    /\ num_comments = 0
    /\ data = NoResponse
    /\ posts = <<>>
    /\ results = <<>>
    /\ requests = <<>>
    /\ ret = NoReturn

----------------------------------------------------------------------------
(* main's loop over the topics: email_script.py, lines 386-400.            *)

\* default of --max-results
DefaultMaxResults == 3

SEARCH_CONFIG_topics ==
    <<[term |-> "Agentic AI", category |-> "Agentic AI"],
      [term |-> "H1B visa news", category |-> "H1B / Immigration"],
      [term |-> "S&P 500 market today", category |-> "Markets & Finance"],
      [term |-> "GitHub trending repos", category |-> "GitHub / Developer Tools"]>>

QUICK_CONFIG_topics == <<[term |-> "Agentic AI", category |-> "Agentic AI"]>>

\* line 386
config_topics == IF quick THEN QUICK_CONFIG_topics ELSE SEARCH_CONFIG_topics

\* what the relevance LLM may put in the id field of a verdict
VerdictIds == {"2", "3", "7"}

DigitChar(d) ==
    CASE d = 0 -> "0" [] d = 1 -> "1" [] d = 2 -> "2" [] d = 3 -> "3"
      [] d = 4 -> "4" [] d = 5 -> "5" [] d = 6 -> "6" [] d = 7 -> "7"
      [] d = 8 -> "8" [] d = 9 -> "9"

\* str(n) of a non-negative integer: its decimal digits
RECURSIVE str(_)
str(n) == IF n < 10 THEN DigitChar(n) ELSE str(n \div 10) \o DigitChar(n % 10)

\* the pages the search API may list
Links == {"https://a.test", "https://b.test", "https://c.test"}

\* the search API's answer, line 125: has_organic says whether it has the
\* 'organic' field, organic is the array under it; an entry is shown by its
\* link (title and snippet are copied the way the link is)
NoOrganic == [has_organic |-> FALSE, organic |-> <<>>]
Organic(entries) == [has_organic |-> TRUE, organic |-> entries]

\* every answer with at most MaxOrganic entries
SerperResponses ==
    {NoOrganic} \cup {Organic(e) : e \in SeqsUpTo([link : Links], MaxOrganic)}

\* n entries, the i-th being the i-th page a site has on the query
RankedOrganic(search_query, n) ==
    Organic([i \in 1..n |->
               [link |-> "https://a.test/" \o search_query \o "/" \o str(i)]])

\* the answers to a query made of such entries
RankedResponses(search_query) ==
    {NoOrganic} \cup {RankedOrganic(search_query, n) : n \in 0..MaxOrganic}

\* enumerate(results_list) without its start argument
search_serper_from_zero(search_query, response) ==
    IF ~response.has_organic THEN <<>>
    ELSE [idx \in 1..Len(response.organic) |->
            [link |-> response.organic[idx].link,
             search_term |-> search_query,
             id |-> idx - 1]]

\* search_serper on the API's answer, lines 125-143
search_serper(search_query, response) ==
    IF ~response.has_organic THEN <<>>
    ELSE [idx \in 1..Len(response.organic) |->
            [link |-> response.organic[idx].link,
             search_term |-> search_query,
             id |-> idx]]

\* lines 394-395
with_category(res, category) ==
    [i \in 1..Len(res) |->
       [id |-> res[i].id, link |-> res[i].link,
        search_term |-> res[i].search_term, category |-> category]]

\* the verdicts of the LLM returned as they came
check_search_relevance_untruncated(llm_relevant_results, max) ==
    llm_relevant_results

\* check_search_relevance on the LLM's verdicts, lines 157-160
check_search_relevance(llm_relevant_results, max) ==
    PySlice(llm_relevant_results, max)

\* an id compared with the verdict ids as the integer it is
id_is_relevant_unconverted(r, ids) == FALSE

\* line 399: str(r['id']) in relevant_ids
id_is_relevant(r, ids) == str(r.id) \in Range(ids)

\* line 392, 394-395: the search for the topic, answered by response, and
\* the enrichment
search_answered(response) ==
    /\ m_pc = "search"
    /\ serper_response' = response
    /\ search_results' =
         with_category(search_serper(config_topics[topic].term, response),
                       config_topics[topic].category)
    /\ m_pc' = "relevance"
    /\ UNCHANGED <<quick, max_results, topic, llm_verdicts, relevant_ids,
                   filtered_results, relevant_results>>
    /\ UNCHANGED <<graphVars, redditVars, stageVars, runVars>>

\* the search inside main's loop
search_topic ==
    \E response \in RankedResponses(config_topics[topic].term) :
        search_answered(response)

\* the search under every answer of the API
search_any == \E response \in SerperResponses : search_answered(response)

\* lines 397-400: the relevance check, the selection by id, and the end of
\* the iteration
filter_topic ==
    /\ m_pc = "relevance"
    /\ \E llm_ids \in SeqsUpTo(VerdictIds, MaxVerdicts) :
         LET llm_output == [i \in 1..Len(llm_ids) |->
                              [explanation |-> "relevant", id |-> llm_ids[i]]]
             verdicts == check_search_relevance(llm_output, max_results)
         IN /\ llm_verdicts' = llm_ids
            /\ relevant_ids' = [i \in 1..Len(verdicts) |-> verdicts[i].id]
    /\ filtered_results' =
         SelectSeq(search_results, LAMBDA r : id_is_relevant(r, relevant_ids'))
    /\ relevant_results' = relevant_results \o filtered_results'
    /\ IF topic < Len(config_topics)
       THEN m_pc' = "search" /\ topic' = topic + 1
       ELSE m_pc' = "scrape" /\ topic' = topic
    /\ UNCHANGED <<quick, max_results, serper_response, search_results>>
    /\ UNCHANGED <<graphVars, redditVars, stageVars, runVars>>

MainIdle ==
    /\ m_pc = "idle"
    /\ quick = FALSE
    /\ max_results = 0
    /\ topic = 0
    /\ serper_response = NoOrganic
    /\ search_results = <<>>
    /\ llm_verdicts = <<>>
    /\ relevant_ids = <<>>
    /\ filtered_results = <<>>
    /\ relevant_results = <<>>

----------------------------------------------------------------------------
(* The scrape and summarize stages: email_script.py, lines 195-275 and     *)
(* 404-405.                                                                *)

\* how many items a batch of the stages holds at most
MaxItems == 3

\* how the scrape of one item may go: the page is saved, the proxy answers
\* with a status other than 200, or something inside the try raises
ScrapeOutcomes == {"saved", "not_200", "raised"}

\* how the summary of one page may go: the summary is saved, or something
\* inside the try raises
SummaryOutcomes == {"saved", "raised"}

\* lines 217-218
scraped_filepath(result) == "scraped_markdown/" \o str(result.id) \o ".md"

\* lines 255-256
summary_filepath(content) ==
    "markdown_summaries/summary_" \o str(content.id) \o ".md"

\* lines 225-232: the entry of a saved page (the markdown and the title are
\* carried with it and left out here)
ScrapedPage(result) ==
    [url |-> result.link, filepath |-> scraped_filepath(result),
     id |-> result.id, category |-> result.category]

\* lines 261-266: the entry of a saved summary
Summary(content) ==
    [markdown_summary |-> summary_filepath(content), url |-> content.url,
     category |-> content.category]

\* a failed item leaves an empty entry behind
scrape_collected_null_padded(contents, result, outcome) ==
    Append(contents, IF outcome = "saved" THEN ScrapedPage(result)
                     ELSE [url |-> "", filepath |-> "", id |-> 0,
                           category |-> ""])

\* lines 210-236: markdown_contents after one iteration
scrape_collected(contents, result, outcome) ==
    IF outcome = "saved" THEN Append(contents, ScrapedPage(result))
    ELSE contents

\* lines 252-270: summaries after one iteration
summary_collected(sums, content, outcome) ==
    IF outcome = "saved" THEN Append(sums, Summary(content)) ELSE sums

\* lines 220-223 and 258-259: the files after one iteration
files_written(files, filepath, outcome) ==
    IF outcome = "saved" THEN Append(files, filepath) ELSE files

\* one iteration of the loop of scrape_and_save_markdown, lines 198-236
scrape_item ==
    /\ m_pc = "scrape"
    /\ item <= Len(relevant_results)
    /\ \E outcome \in ScrapeOutcomes :
         LET result == relevant_results[item]
         IN /\ markdown_contents' =
                 scrape_collected(markdown_contents, result, outcome)
            /\ written' =
                 files_written(written, scraped_filepath(result), outcome)
            /\ scrape_log' = Append(scrape_log, outcome)
    /\ item' = item + 1
    /\ UNCHANGED <<summaries, summary_log>>
    /\ UNCHANGED <<graphVars, redditVars, mainVars>>
    /\ UNCHANGED runVars

\* lines 238-239 and 405: the scrape returns, the summaries begin
scrape_return ==
    /\ m_pc = "scrape"
    /\ item > Len(relevant_results)
    /\ m_pc' = "summarize"
    /\ item' = 1
    /\ UNCHANGED <<quick, max_results, topic, serper_response, search_results,
                   llm_verdicts, relevant_ids, filtered_results,
                   relevant_results>>
    /\ UNCHANGED <<markdown_contents, summaries, scrape_log, summary_log,
                   written>>
    /\ UNCHANGED <<graphVars, redditVars>>
    /\ UNCHANGED runVars

\* one iteration of the loop of generate_summaries, lines 250-272
summarise_item ==
    /\ m_pc = "summarize"
    /\ item <= Len(markdown_contents)
    /\ \E outcome \in SummaryOutcomes :
         LET content == markdown_contents[item]
         IN /\ summaries' = summary_collected(summaries, content, outcome)
            /\ written' =
                 files_written(written, summary_filepath(content), outcome)
            /\ summary_log' = Append(summary_log, outcome)
    /\ item' = item + 1
    /\ UNCHANGED <<markdown_contents, scrape_log>>
    /\ UNCHANGED <<graphVars, redditVars, mainVars>>
    /\ UNCHANGED runVars

\* lines 274-275 and 407: generate_summaries returns
summaries_return ==
    /\ m_pc = "summarize"
    /\ item > Len(markdown_contents)
    /\ m_pc' = "reddit"
    /\ UNCHANGED <<quick, max_results, topic, serper_response, search_results,
                   llm_verdicts, relevant_ids, filtered_results,
                   relevant_results>>
    /\ UNCHANGED stageVars
    /\ UNCHANGED <<graphVars, redditVars>>
    /\ UNCHANGED runVars

StageIdle ==
    /\ item = 1
    /\ markdown_contents = <<>>
    /\ summaries = <<>>
    /\ scrape_log = <<>>
    /\ summary_log = <<>>
    /\ written = <<>>

\* the integer ids whose numeral the relevance LLM may name
CarriedIds == {i \in 1..MaxOrganic : str(i) \in VerdictIds}

\* what the loop over the topics may carry forward of topic t: the results
\* of its search whose ids are in a set the verdicts name
TopicSelections(t) ==
    LET found == with_category(
                     search_serper(SEARCH_CONFIG_topics[t].term,
                         RankedOrganic(SEARCH_CONFIG_topics[t].term,
                                       MaxOrganic)),
                     SEARCH_CONFIG_topics[t].category)
    IN {SelectSeq(found, LAMBDA r : r.id \in S) :
          S \in {T \in SUBSET CarriedIds :
                   Cardinality(T) <= Min(DefaultMaxResults, MaxVerdicts)}}

\* the batches of at most MaxItems items that the loop over the topics
\* hands to the scrape when the search of the last topic found nothing
StageInputs ==
    {batch \in {a \o b \o c : a \in TopicSelections(1),
                               b \in TopicSelections(2),
                               c \in TopicSelections(3)} :
        Len(batch) <= MaxItems}

----------------------------------------------------------------------------
(* The review graph: email_script.py, summariser / reviewer / main.        *)

\* what the LLM may answer
Drafts == {"D1", "D2"}
Requests == {"please review"}
Feedbacks == {"F1", "F2"}
MessageTypes == {"ai", "human", "system"}

AIMessage(c) == [type |-> "ai", content |-> c]

HumanMessage(c) == [type |-> "human", content |-> c]

\* a reducer-less messages channel: an update replaces the conversation
add_messages_overwrite(left, right) == right

\* the reducer of State.messages: an update is appended to the stored list
\* (the messages of an update are new and carry no id of a stored message)
add_messages(left, right) == left \o right

\* State.created_summaries has no reducer: an update replaces the value
created_summaries_channel(old, new) == new

\* summariser's return value, lines 312-320
summariser_update(out) ==
    [messages |-> <<AIMessage(out.email_summary), AIMessage(out.message)>>,
     created_summaries |-> <<out.email_summary>>]

\* an inversion that relabels assistant turns only
convert_message_ai_only(msg) ==
    IF msg.type = "ai" THEN HumanMessage(msg.content) ELSE msg

\* reviewer's role inversion of one message, lines 326-328
convert_message(msg) ==
    IF msg.type = "ai" THEN HumanMessage(msg.content)
    ELSE IF msg.type = "human" THEN AIMessage(msg.content)
    ELSE msg

\* reviewer's converted_messages, lines 325-330
converted_messages(msgs) == [i \in 1..Len(msgs) |-> convert_message(msgs[i])]

\* the edge with its two targets exchanged
conditional_edge_inverted(is_approved) ==
    IF is_approved THEN "summariser" ELSE "END"

\* conditional_edge, lines 342-343
conditional_edge(is_approved) == IF is_approved THEN "END" ELSE "summariser"

\* the first draft of the run instead of the last
final_email_first(output_created_summaries) == messages[1].content

\* main, line 448: output["created_summaries"][-1]
final_email(output_created_summaries) ==
    output_created_summaries[Len(output_created_summaries)]

NumCalls(chain) == Cardinality({i \in 1..Len(calls) : calls[i].chain = chain})

\* graph.invoke starts the graph with no messages; START -> summariser
graph_invoke ==
    /\ pc = "START"
    /\ pc' = "summariser"
    /\ UNCHANGED <<messages, approved, created_summaries, calls, dry_run,
                   stdout, emails>>
    /\ UNCHANGED <<redditVars, mainVars, stageVars, runVars>>

\* the summariser node, followed by the edge summariser -> reviewer
summariser ==
    /\ pc = "summariser"
    /\ NumCalls("summariser") < MaxRevisions
    /\ \E draft \in Drafts, request \in Requests :
         LET out == [email_summary |-> draft, message |-> request]
             update == summariser_update(out)
         IN /\ calls' = Append(calls, [chain |-> "summariser",
                                       messages |-> messages,
                                       output |-> out])
            /\ messages' = add_messages(messages, update.messages)
            /\ created_summaries' =
                 created_summaries_channel(created_summaries,
                                           update.created_summaries)
    /\ pc' = "reviewer"
    /\ UNCHANGED <<approved, dry_run, stdout, emails>>
    /\ UNCHANGED <<redditVars, mainVars, stageVars, runVars>>

\* the assignment of line 331 reaching the stored conversation
stored_messages_inverted(state_messages) == converted_messages(state_messages)

\* the stored conversation after line 331: the node assigns the inverted
\* conversation to a key of the state it was handed, and of what a node
\* does only the update it returns reaches the stored state
stored_messages(state_messages) == state_messages

\* the reviewer node, followed by the conditional edge out of it
reviewer ==
    /\ pc = "reviewer"
    /\ \E verdict \in BOOLEAN, feedback \in Feedbacks :
         LET out == [approved |-> verdict, message |-> feedback]
         IN /\ calls' = Append(calls, [chain |-> "reviewer",
                                       messages |-> converted_messages(messages),
                                       output |-> out])
            /\ messages' = add_messages(stored_messages(messages),
                                        <<HumanMessage(out.message)>>)
            /\ approved' = out.approved
    /\ pc' = conditional_edge(approved')
    /\ UNCHANGED <<created_summaries, dry_run, stdout, emails>>
    /\ UNCHANGED <<redditVars, mainVars, stageVars, runVars>>

\* the draft sent whatever the mode
delivery_always_sends(is_dry_run) == "send"

\* main, lines 451-459: what is done with the final draft
delivery(is_dry_run) == IF is_dry_run THEN "print" ELSE "send"

\* a failed send tried a second time
send_attempts_retried(email_content, sent) ==
    IF sent THEN <<[html |-> email_content, sent |-> TRUE]>>
    ELSE <<[html |-> email_content, sent |-> FALSE],
           [html |-> email_content, sent |-> FALSE]>>

\* send_email, lines 355-366: the calls of resend.Emails.send it makes when
\* the call succeeds (sent) or raises
send_attempts(email_content, sent) ==
    <<[html |-> email_content, sent |-> sent]>>

\* main after graph.invoke, dry-run branch, lines 448-457
print_email ==
    /\ pc = "END"
    /\ delivery(dry_run) = "print"
    /\ stdout' = Append(stdout, final_email(created_summaries))
    /\ pc' = "done"
    /\ UNCHANGED <<messages, approved, created_summaries, calls, dry_run,
                   emails>>
    /\ UNCHANGED <<redditVars, mainVars, stageVars, runVars>>

\* main after graph.invoke, live branch: send_email, lines 346-366 and 459
send_email ==
    /\ pc = "END"
    /\ delivery(dry_run) = "send"
    /\ \E sent \in BOOLEAN :
         emails' =
             emails \o send_attempts(final_email(created_summaries), sent)
    /\ pc' = "done"
    /\ UNCHANGED <<messages, approved, created_summaries, calls, dry_run,
                   stdout>>
    /\ UNCHANGED <<redditVars, mainVars, stageVars, runVars>>

----------------------------------------------------------------------------
(* main from its start to the delivery: email_script.py, lines 369-461.    *)
(* Each call main makes is one step here; of a list that a call returns,   *)
(* main itself only looks at the length, which is what sizes holds.  The   *)
(* inside of the calls is the subject of the sections above.               *)

\* lines 65-71
required_environment_variables ==
    {"SERPER_API_KEY", "SCRAPINGFISH_API_KEY", "RESEND_API_KEY",
     "OPENAI_API_KEY", "DESTINATION_EMAIL"}

\* the validation left out
validate_environment_variables_skipped(environ) == TRUE

\* validate_environment_variables, lines 74-77, under the variables that
\* are set: TRUE when it returns, FALSE when it raises ValueError
validate_environment_variables(environ) ==
    \A var \in required_environment_variables : var \in environ

SEARCH_CONFIG_reddit_keywords ==
    <<[keyword |-> "claude ai", subreddit |-> "None"],
      [keyword |-> "local llm", subreddit |-> "LocalLLaMA"]>>

QUICK_CONFIG_reddit_keywords ==
    <<[keyword |-> "claude ai", subreddit |-> "None"]>>

\* line 386
config_reddit_keywords ==
    IF quick THEN QUICK_CONFIG_reddit_keywords
    ELSE SEARCH_CONFIG_reddit_keywords

\* the generation steps in the order main takes them
GenerationSteps ==
    <<"search", "filter", "scrape", "summarize", "reddit", "review">>

NoSizes ==
    [relevant_results |-> 0, markdown_contents |-> 0, summaries |-> 0,
     reddit_data |-> 0]

\* how many results of one topic the filter of lines 397-399 may carry
\* forward at most
MostPerTopic ==
    Min(Cardinality(CarriedIds),
        Len(check_search_relevance([i \in 1..MaxVerdicts |-> i], max_results)))

\* lines 376-383: the environment is loaded and validated
validate ==
    /\ run_pc = "validate"
    /\ run_pc' = IF validate_environment_variables(env) THEN "topics"
                 ELSE "aborted"
    /\ UNCHANGED <<env, net, steps, sizes>>
    /\ UNCHANGED <<graphVars, redditVars, mainVars, stageVars>>

\* lines 386-402: the loop over the topics; an exception of the search or of
\* the relevance check is not caught and ends the run
run_topics ==
    /\ run_pc = "topics"
    /\ \/ /\ \E n \in 0..(Len(config_topics) * MostPerTopic) :
                sizes' = [sizes EXCEPT !.relevant_results = n]
          /\ net' = net \cup {"serper", "openai"}
          /\ steps' = steps \o <<"search", "filter">>
          /\ run_pc' = "scrape"
       \/ /\ \E called \in {{"serper"}, {"serper", "openai"}} :
                net' = net \cup called
          /\ run_pc' = "aborted"
          /\ UNCHANGED <<steps, sizes>>
    /\ UNCHANGED env
    /\ UNCHANGED <<graphVars, redditVars, mainVars, stageVars>>

\* line 404: scrape_and_save_markdown returns the pages it saved
run_scrape ==
    /\ run_pc = "scrape"
    /\ \E n \in 0..sizes.relevant_results :
         sizes' = [sizes EXCEPT !.markdown_contents = n]
    /\ net' = IF sizes.relevant_results > 0 THEN net \cup {"scrapingfish"}
              ELSE net
    /\ steps' = Append(steps, "scrape")
    /\ run_pc' = "summarize"
    /\ UNCHANGED env
    /\ UNCHANGED <<graphVars, redditVars, mainVars, stageVars>>

\* line 405: generate_summaries returns the summaries it saved
run_summaries ==
    /\ run_pc = "summarize"
    /\ \E n \in 0..sizes.markdown_contents :
         sizes' = [sizes EXCEPT !.summaries = n]
    /\ net' = IF sizes.markdown_contents > 0 THEN net \cup {"openai"} ELSE net
    /\ steps' = Append(steps, "summarize")
    /\ run_pc' = "reddit"
    /\ UNCHANGED env
    /\ UNCHANGED <<graphVars, redditVars, mainVars, stageVars>>

\* lines 407-410: fetch_reddit_data returns the results of the keywords
\* that gave one; it catches nothing, so an exception of the Reddit layer
\* ends the run
run_reddit ==
    /\ run_pc = "reddit"
    /\ \/ /\ \E n \in 0..Len(config_reddit_keywords) :
                sizes' = [sizes EXCEPT !.reddit_data = n]
          /\ steps' = Append(steps, "reddit")
          /\ run_pc' = "graph"
       \/ /\ run_pc' = "aborted"
          /\ UNCHANGED <<steps, sizes>>
    /\ net' = net \cup {"scrapingfish"}
    /\ UNCHANGED env
    /\ UNCHANGED <<graphVars, redditVars, mainVars, stageVars>>

\* lines 412-446: the graph is built and invoked; when its loop ends, the
\* output holds the draft of the last summariser run; an exception of the
\* LLM inside a node ends the run
run_graph ==
    /\ run_pc = "graph"
    /\ pc = "idle"
    /\ \/ /\ \E draft \in Drafts :
                created_summaries' =
                    created_summaries_channel(created_summaries, <<draft>>)
          /\ approved' = TRUE
          /\ pc' = "END"
          /\ steps' = Append(steps, "review")
          /\ run_pc' = "deliver"
       \/ /\ run_pc' = "aborted"
          /\ UNCHANGED <<created_summaries, approved, pc, steps>>
    /\ net' = net \cup {"openai"}
    /\ UNCHANGED <<env, sizes>>
    /\ UNCHANGED <<messages, calls, dry_run, stdout, emails>>
    /\ UNCHANGED <<redditVars, mainVars, stageVars>>

RunIdle ==
    /\ run_pc = "idle"
    /\ env = required_environment_variables
    /\ net = {}
    /\ steps = <<>>
    /\ sizes = NoSizes

GraphInit ==
    /\ pc = "START"
    /\ messages = <<>>
    /\ approved = FALSE     \* absent until the first reviewer run sets it
    /\ created_summaries = <<>>
    /\ calls = <<>>
    /\ dry_run \in BOOLEAN
    /\ stdout = <<>>
    /\ emails = <<>>
    /\ RedditIdle
    /\ MainIdle
    /\ StageIdle
    /\ RunIdle

GraphNext ==
    \/ graph_invoke
    \/ summariser
    \/ reviewer
    \/ print_email
    \/ send_email

SpecGraph == GraphInit /\ [][GraphNext]_vars

\* one reviewer run on any stored conversation
ReviewerInit ==
    /\ pc = "reviewer"
    /\ messages \in SeqsUpTo([type : MessageTypes, content : Drafts], MaxConversation)
    /\ approved = FALSE
    /\ created_summaries = <<>>
    /\ calls = <<>>
    /\ dry_run = FALSE
    /\ stdout = <<>>
    /\ emails = <<>>
    /\ RedditIdle
    /\ MainIdle
    /\ StageIdle
    /\ RunIdle

SpecReviewer == ReviewerInit /\ [][reviewer]_vars

GraphIdle ==
    /\ pc = "idle"
    /\ messages = <<>>
    /\ approved = FALSE
    /\ created_summaries = <<>>
    /\ calls = <<>>
    /\ dry_run = FALSE
    /\ stdout = <<>>
    /\ emails = <<>>

\* one call of get_top_posts_with_comments, or of the legacy
\* get_top_post_with_comments, which asks for one post
RedditInit ==
    /\ r_pc = "call"
    /\ legacy \in BOOLEAN
    /\ num_posts \in (IF legacy THEN {LegacyNumPosts}
                      ELSE LegacyNumPosts..DefaultNumPosts)
    /\ num_comments \in 1..MaxNumComments
    /\ data = NoResponse
    /\ posts = <<>>
    /\ results = <<>>
    /\ requests = <<>>
    /\ ret = NoReturn
    /\ GraphIdle
    /\ MainIdle
    /\ StageIdle
    /\ RunIdle

RedditNext ==
    \/ search
    \/ fetch_comments

SpecReddit == RedditInit /\ [][RedditNext]_vars

\* main from the start of its loop over the topics
MainInit ==
    /\ m_pc = "search"
    /\ quick \in BOOLEAN
    /\ max_results \in {1, DefaultMaxResults}
    /\ topic = 1
    /\ serper_response = NoOrganic
    /\ search_results = <<>>
    /\ llm_verdicts = <<>>
    /\ relevant_ids = <<>>
    /\ filtered_results = <<>>
    /\ relevant_results = <<>>
    /\ GraphIdle
    /\ RedditIdle
    /\ StageIdle
    /\ RunIdle

MainNext ==
    \/ search_topic
    \/ filter_topic

SpecMain == MainInit /\ [][MainNext]_vars

\* search_serper on its own: the first search of a run under every answer
SpecSerper == MainInit /\ [][search_any]_vars

\* what --max-results may be given: type=int accepts any integer
MaxResultsArgs == {-1, 0, 1, DefaultMaxResults}

\* check_search_relevance on its own: a topic has been searched, the
\* relevance check is about to run under any --max-results
RelevanceInit ==
    /\ m_pc = "relevance"
    /\ quick \in BOOLEAN
    /\ max_results \in MaxResultsArgs
    /\ topic = 1
    /\ serper_response \in RankedResponses(config_topics[1].term)
    /\ search_results =
         with_category(search_serper(config_topics[1].term, serper_response),
                       config_topics[1].category)
    /\ llm_verdicts = <<>>
    /\ relevant_ids = <<>>
    /\ filtered_results = <<>>
    /\ relevant_results = <<>>
    /\ GraphIdle
    /\ RedditIdle
    /\ StageIdle
    /\ RunIdle

SpecRelevance == RelevanceInit /\ [][filter_topic]_vars

\* main at line 404: the loop over the topics is over
StagesInit ==
    /\ m_pc = "scrape"
    /\ quick = FALSE
    /\ max_results = DefaultMaxResults
    /\ topic = Len(SEARCH_CONFIG_topics)
    /\ serper_response = NoOrganic
    /\ search_results = <<>>
    /\ llm_verdicts = <<>>
    /\ relevant_ids = <<>>
    /\ filtered_results = <<>>
    /\ relevant_results \in StageInputs
    /\ StageIdle
    /\ RunIdle
    /\ GraphIdle
    /\ RedditIdle

StagesNext ==
    \/ scrape_item
    \/ scrape_return
    \/ summarise_item
    \/ summaries_return

SpecStages == StagesInit /\ [][StagesNext]_vars

\* main at its start, under any flags and any environment
RunInit ==
    /\ run_pc = "validate"
    /\ env \in SUBSET required_environment_variables
    /\ net = {}
    /\ steps = <<>>
    /\ sizes = NoSizes
    /\ pc = "idle"
    /\ messages = <<>>
    /\ approved = FALSE
    /\ created_summaries = <<>>
    /\ calls = <<>>
    /\ dry_run \in BOOLEAN
    /\ stdout = <<>>
    /\ emails = <<>>
    /\ m_pc = "idle"
    /\ quick \in BOOLEAN
    /\ max_results \in MaxResultsArgs
    /\ topic = 0
    /\ serper_response = NoOrganic
    /\ search_results = <<>>
    /\ llm_verdicts = <<>>
    /\ relevant_ids = <<>>
    /\ filtered_results = <<>>
    /\ relevant_results = <<>>
    /\ RedditIdle
    /\ StageIdle

RunNext ==
    \/ validate
    \/ run_topics
    \/ run_scrape
    \/ run_summaries
    \/ run_reddit
    \/ run_graph
    \/ print_email
    \/ send_email

SpecRun == RunInit /\ [][RunNext]_vars

----------------------------------------------------------------------------
(* Properties of the review graph.                                         *)

LastCall == calls[Len(calls)]

ReviewerCalls == {i \in 1..Len(calls) : calls[i].chain = "reviewer"}

SummariserCalls == {i \in 1..Len(calls) : calls[i].chain = "summariser"}

Rejections == {i \in ReviewerCalls : ~calls[i].output.approved}

Delivered ==
    stdout \o [i \in 1..Len(emails) |-> emails[i].html]

C1_Routing ==
    pc = "reviewer" =>
        /\ pc' \in {"END", "summariser"}
        /\ (pc' = "END") <=> calls'[Len(calls')].output.approved
        /\ (pc' = "summariser") <=> ~calls'[Len(calls')].output.approved

C1_Termination ==
    /\ pc \in {"END", "done"} =>
          /\ calls # <<>>
          /\ LastCall.chain = "reviewer"
          /\ LastCall.output.approved
          /\ Rejections = ReviewerCalls \ {Len(calls)}
          /\ Cardinality(SummariserCalls) = Cardinality(Rejections) + 1
    /\ pc \in {"summariser", "reviewer"} =>
          \A i \in ReviewerCalls : ~calls[i].output.approved

\* C1: after every review step control goes to exactly one place, END when
\* the verdict is approved and summariser otherwise; the graph is left only
\* after an approval, every verdict before it was a rejection, and a run
\* with n rejections followed by an approval ends after n+1 summariser
\* runs, whatever n is (the loop itself counts nothing).
C1_ReviewLoop == [][C1_Routing]_vars /\ []C1_Termination

\* n = MaxRevisions - 1 rejections, then an approval, then the delivery
C1_Witness ==
    /\ pc = "done"
    /\ Cardinality(Rejections) = MaxRevisions - 1
    /\ Cardinality(SummariserCalls) = MaxRevisions

LastSummariserCall ==
    CHOOSE i \in SummariserCalls : \A j \in SummariserCalls : j <= i

\* C2: once main has delivered, exactly one content was delivered (printed
\* in dry-run mode, sent otherwise), it is the draft of the most recent
\* summariser run, and the reviewer run that followed that draft approved
\* it; nothing is delivered before the graph has ended.
C2_DeliveredIsApprovedDraft ==
    /\ pc = "done" =>
          /\ SummariserCalls # {}
          /\ Delivered = <<calls[LastSummariserCall].output.email_summary>>
          /\ LastSummariserCall + 1 \in ReviewerCalls
          /\ calls[LastSummariserCall + 1].output.approved
          /\ dry_run <=> (stdout # <<>>)
    /\ pc # "done" => Delivered = <<>>

\* D1 rejected, D2 approved, D2 delivered
C2_Witness ==
    /\ pc = "done"
    /\ Len(calls) = 4
    /\ calls[1].output.email_summary = "D1"
    /\ ~calls[2].output.approved
    /\ calls[3].output.email_summary = "D2"
    /\ calls[4].output.approved
    /\ Delivered = <<"D2">>

\* what call j leaves for later summariser runs to see: its draft or its
\* feedback
Produced(j) ==
    IF calls[j].chain = "summariser"
    THEN AIMessage(calls[j].output.email_summary)
    ELSE HumanMessage(calls[j].output.message)

RECURSIVE IsSubSeq(_, _)
IsSubSeq(s, t) ==
    IF s = <<>> THEN TRUE
    ELSE IF t = <<>> THEN FALSE
    ELSE IF Head(s) = Head(t) THEN IsSubSeq(Tail(s), Tail(t))
    ELSE IsSubSeq(s, Tail(t))

\* C3: the conversation handed to the LLM by any summariser run contains,
\* in the order of their production, the draft of every earlier summariser
\* run and the feedback of every earlier reviewer run.
C3_SummariserSeesHistory ==
    \A i \in SummariserCalls :
        IsSubSeq([j \in 1..(i - 1) |-> Produced(j)], calls[i].messages)

\* the second summariser run is handed D1 and F1
C3_Witness ==
    /\ Len(calls) >= 3
    /\ calls[1].output.email_summary = "D1"
    /\ ~calls[2].output.approved
    /\ calls[2].output.message = "F1"
    /\ calls[3].chain = "summariser"
    /\ calls[3].messages =
         <<AIMessage("D1"), AIMessage("please review"), HumanMessage("F1")>>

\* the conversation that was stored when the last call, a reviewer run, began
StoredBeforeLastCall == SubSeq(messages, 1, Len(messages) - 1)

\* C4: the conversation a reviewer run hands to the reviewer LLM has the
\* length, the order and the contents of the stored conversation; an
\* assistant turn is presented as a human turn, a human turn as an assistant
\* turn, and a turn of any other role is presented unchanged.
C4_RolesInverted ==
    (calls # <<>> /\ LastCall.chain = "reviewer") =>
        /\ Len(LastCall.messages) = Len(StoredBeforeLastCall)
        /\ \A j \in 1..Len(StoredBeforeLastCall) :
             LET stored == StoredBeforeLastCall[j]
                 shown == LastCall.messages[j]
             IN /\ shown.content = stored.content
                /\ stored.type = "ai" => shown.type = "human"
                /\ stored.type = "human" => shown.type = "ai"
                /\ stored.type \notin {"ai", "human"} => shown = stored

\* a reviewer run on a conversation holding an assistant, a human and a
\* system turn
C4_Witness ==
    /\ calls # <<>>
    /\ LastCall.chain = "reviewer"
    /\ {StoredBeforeLastCall[j].type : j \in 1..Len(StoredBeforeLastCall)}
         = MessageTypes

----------------------------------------------------------------------------
(* Properties of the Reddit acquisition layer.                             *)

\* the requests the loop sent for its k-th post, in order
RequestsForPost(k) ==
    SelectSeq(requests, LAMBDA r : r.endpoint = "comments" /\ r.post = k)

CommentRequests == SelectSeq(requests, LAMBDA r : r.endpoint = "comments")

\* C5: for every post the loop has fetched, a first answer of 429 was
\* followed by exactly one retry (two requests in all), and any other first
\* answer by none (one request in all).
C5_OneRetryOn429 ==
    \A k \in 1..Len(results) :
        LET sent == RequestsForPost(k)
        IN /\ sent # <<>>
           /\ sent[1].status = "429" => Len(sent) = 2
           /\ sent[1].status # "429" => Len(sent) = 1

IsSortedByScore(s) == \A i \in 1..(Len(s) - 1) : s[i].score >= s[i + 1].score

\* the search answered with a listing, and this is the state right after it
JustSearched == Len(requests) = 1 /\ data.shape = "object"

RawHitExisted == posts # <<>> \/ (JustSearched /\ data.children # <<>>)

LinkedHitExisted ==
    posts # <<>> \/ (JustSearched /\ \E i \in 1..Len(data.children) :
                                        data.children[i].permalink # "")

NoUsableComments == \A k \in 1..Len(results) : results[k].comments = <<>>

HasResult == ret.type \in {"list", "dict"} /\ ret.value # <<>>

\* C6 as stated: a keyword whose search returned a raw hit and whose posts
\* yielded no comments gets a result whose post has score 0 and whose
\* comment list is empty.
C6_DegradedScoreZero ==
    (r_pc = "returned" /\ RawHitExisted /\ NoUsableComments) =>
        /\ HasResult
        /\ \A k \in 1..Len(ret.value) :
             /\ ret.value[k].post.score = 0
             /\ ret.value[k].comments = <<>>

\* C6: every post the search returns is built from a hit of the listing
\* that carries a permalink and keeps that hit's score; when the called
\* function returns and a hit with a permalink existed, it returns a result,
\* each result holds the post the search returned for it, and if no post
\* yielded comments every result has an empty comment list.
C6_DegradedFromSearchHit ==
    /\ JustSearched =>
          /\ \A k \in 1..Len(posts) :
               \E i \in 1..Len(data.children) :
                  /\ data.children[i].permalink # ""
                  /\ posts[k].url = "https://www.reddit.com" \o data.children[i].permalink
                  /\ posts[k].score = data.children[i].score
          /\ (posts # <<>>) <=> (\E i \in 1..Len(data.children) :
                                    data.children[i].permalink # "")
    /\ (r_pc = "returned" /\ LinkedHitExisted) =>
          /\ HasResult
          /\ \A k \in 1..Len(ret.value) : ret.value[k].post = posts[k]
          /\ NoUsableComments =>
                \A k \in 1..Len(ret.value) : ret.value[k].comments = <<>>

\* a hit of score 90 whose comment fetch hit a 500: returned with its score
\* and no comments
C6_Witness ==
    /\ r_pc = "returned"
    /\ Len(posts) = 1
    /\ data.status = "500"
    /\ HasResult
    /\ ret.value[1].post.score = 90
    /\ ret.value[1].comments = <<>>

\* C7: while the loop runs it has sent one comment fetch per post handled so
\* far; when the function returns after a search that found posts, results
\* holds one entry per post and exactly one comment fetch was made for each
\* post, in the order of the posts; a raise of the function comes from the
\* search, never from a comment fetch.
C7_EveryPostAttempted ==
    /\ r_pc = "loop" =>
          /\ Len(results) < Len(posts)
          /\ Len(CommentRequests) = Len(results)
    /\ (r_pc = "returned" /\ posts # <<>>) =>
          /\ Len(results) = Len(posts)
          /\ Len(CommentRequests) = Len(posts)
          /\ \A k \in 1..Len(posts) :
               /\ CommentRequests[k].post = k
               /\ CommentRequests[k].url = posts[k].url
    /\ r_pc = "raised" => CommentRequests = <<>>

\* three posts: the first fetch raised, the second got a 429, the third
\* brought comments
C7_Witness ==
    /\ r_pc = "returned"
    /\ Len(posts) = 3
    /\ CommentRequests[1].shape = "number"
    /\ CommentRequests[2].status = "429"
    /\ results[1].comments = <<>>
    /\ results[3].comments # <<>>

\* C8: the posts the search returned are in descending order of score and
\* at most num_posts (the num_results asked of the search); the comments of
\* every result are in descending order of score and at most num_comments.
C8_SortedAndBounded ==
    /\ IsSortedByScore(posts)
    /\ Len(posts) <= num_posts
    /\ \A k \in 1..Len(results) :
          /\ IsSortedByScore(results[k].comments)
          /\ Len(results[k].comments) <= num_comments

\* the listing held scores 50 then 90; the posts come back as 90 then 50
C8_Witness ==
    /\ JustSearched
    /\ Len(data.children) = 2
    /\ data.children[1].score = 50
    /\ data.children[2].score = 90
    /\ Len(posts) = 2
    /\ posts[1].score = 90
    /\ posts[2].score = 50

\* C9: once the search has been made and has produced no post, whatever the
\* proxy answered, the called function has returned the empty list (None
\* for the legacy entry point), no comment fetch was made, and nothing was
\* raised.
C9_NoPostsNeverRaises ==
    (requests # <<>> /\ posts = <<>>) =>
        /\ r_pc = "returned"
        /\ ret = IF legacy THEN [type |-> "None", value |-> <<>>]
                 ELSE [type |-> "list", value |-> <<>>]
        /\ CommentRequests = <<>>

----------------------------------------------------------------------------
(* Properties of main's loop over the topics.                              *)

\* the decimal numerals of the ids a search can assign within the bounds
Numeral(n) ==
    CASE n = 1 -> "1" [] n = 2 -> "2" [] n = 3 -> "3" [] n = 4 -> "4"
      [] OTHER -> "none"

\* a topic has been searched and filtered, and the next search has not
\* replaced its results yet
TopicFiltered == m_pc = "scrape" \/ (m_pc = "search" /\ topic > 1)

\* C10: once a topic is filtered, a search result of the topic is carried
\* forward exactly when the numeral of its integer id is the id of one of
\* the truncated verdicts; it is carried forward once, and nothing but
\* search results of the topic is carried forward.
C10_CarriedForwardByStringId ==
    TopicFiltered =>
        /\ \A i \in 1..Len(search_results) :
             (\E k \in 1..Len(filtered_results) :
                 filtered_results[k] = search_results[i])
             <=> (\E v \in 1..Len(relevant_ids) :
                     relevant_ids[v] = Numeral(search_results[i].id))
        /\ \A k \in 1..Len(filtered_results) :
             \E i \in 1..Len(search_results) :
                 filtered_results[k] = search_results[i]
        /\ \A k, l \in 1..Len(filtered_results) :
             filtered_results[k] = filtered_results[l] => k = l

\* verdict ids "2" and "3" over results with integer ids 1, 2, 3
C10_Witness ==
    /\ TopicFiltered
    /\ [i \in 1..Len(search_results) |-> search_results[i].id] = <<1, 2, 3>>
    /\ relevant_ids = <<"2", "3">>
    /\ [k \in 1..Len(filtered_results) |-> filtered_results[k].id] = <<2, 3>>

\* the turns a step of the graph adds to the stored conversation
Appended == SubSeq(messages', Len(messages) + 1, Len(messages'))

\* C18, the steps: no step changes or removes a stored turn; a summariser
\* run appends two assistant turns, the draft and then the request for
\* feedback; a reviewer run appends one human turn, the feedback; no other
\* step touches the conversation.
C18_Step ==
    /\ Len(messages') >= Len(messages)
    /\ SubSeq(messages', 1, Len(messages)) = messages
    /\ pc = "summariser" =>
          Appended = <<AIMessage(calls'[Len(calls')].output.email_summary),
                       AIMessage(calls'[Len(calls')].output.message)>>
    /\ pc = "reviewer" =>
          Appended = <<HumanMessage(calls'[Len(calls')].output.message)>>
    /\ pc \notin {"summariser", "reviewer"} => messages' = messages

\* the role a turn of the conversation has by its position: draft, request
\* for feedback, feedback, draft, ...
RoleAt(k) == IF k % 3 = 0 THEN "human" ELSE "ai"

\* C18, the roles: in the stored conversation, and in the conversation
\* every summariser run was given, the drafts and the requests are
\* assistant turns and the feedbacks are human turns, however many reviewer
\* runs inverted the roles in between.
C18_Roles ==
    /\ \A k \in 1..Len(messages) : messages[k].type = RoleAt(k)
    /\ \A i \in SummariserCalls :
         \A k \in 1..Len(calls[i].messages) :
             /\ calls[i].messages[k].type = RoleAt(k)
             /\ k % 3 = 1 => calls[i].messages[k].content \in Drafts
             /\ k % 3 = 0 => calls[i].messages[k].content \in Feedbacks

\* C18: the stored conversation is append-only and keeps its roles.
C18_AppendOnlyRolesKept == [][C18_Step]_vars /\ []C18_Roles

\* after two reviewer runs the stored conversation still reads draft,
\* request, feedback, draft, request, feedback, and the second summariser
\* run was given the first three turns in their stored roles
C18_Witness ==
    /\ Len(calls) = 4
    /\ messages = <<AIMessage("D1"), AIMessage("please review"),
                    HumanMessage("F1"), AIMessage("D2"),
                    AIMessage("please review"), HumanMessage("F2")>>
    /\ calls[3].messages = SubSeq(messages, 1, 3)
    /\ calls[4].messages[3] = AIMessage("F1")

----------------------------------------------------------------------------
(* Properties of the relevance check.                                      *)

\* C11 as stated: whatever the LLM returns and whatever --max-results is,
\* the relevance check returns at most max-results verdicts.
C11_AtMostMaxResults ==
    TopicFiltered => Len(relevant_ids) <= max_results

\* C11: whatever the LLM returns, under a --max-results that is not
\* negative the relevance check returns the first max-results verdicts of
\* the LLM, so at most max-results of them.
C11_AtMostNonNegativeMaxResults ==
    (TopicFiltered /\ max_results >= 0) =>
        /\ Len(relevant_ids) <= max_results
        /\ Len(relevant_ids) <= Len(llm_verdicts)
        /\ relevant_ids = SubSeq(llm_verdicts, 1, Len(relevant_ids))
        /\ Len(relevant_ids) = max_results \/ relevant_ids = llm_verdicts

\* the LLM gave two verdicts under --max-results 1, one was returned
C11_Witness ==
    /\ TopicFiltered
    /\ max_results = 1
    /\ Len(llm_verdicts) = 2
    /\ Len(relevant_ids) = 1

----------------------------------------------------------------------------
(* Properties of the search.                                               *)

\* the search of the topic has returned and the relevance check has not
\* run yet
JustSearchedTopic == m_pc = "relevance"

\* C12: a search whose answer has N organic entries returns N results, the
\* i-th being the i-th entry of the answer with id i, so the ids are 1..N
\* in upstream order and distinct; an answer without the 'organic' field
\* gives the empty list.
C12_IdsInUpstreamOrder ==
    JustSearchedTopic =>
        IF serper_response.has_organic
        THEN /\ Len(search_results) = Len(serper_response.organic)
             /\ \A i \in 1..Len(search_results) :
                  /\ search_results[i].id = i
                  /\ search_results[i].link = serper_response.organic[i].link
                  /\ search_results[i].search_term = config_topics[topic].term
             /\ \A i, j \in 1..Len(search_results) :
                  search_results[i].id = search_results[j].id => i = j
        ELSE search_results = <<>>

\* three entries, the same page listed first and last
C12_Witness ==
    /\ JustSearchedTopic
    /\ serper_response.has_organic
    /\ [i \in 1..Len(serper_response.organic) |->
          serper_response.organic[i].link]
         = <<"https://b.test", "https://a.test", "https://b.test">>
    /\ [i \in 1..Len(search_results) |-> search_results[i].id] = <<1, 2, 3>>

----------------------------------------------------------------------------
(* Properties of the scrape and summarize stages.                          *)

\* the entries of seq whose handling, as log tells it, ended in a save
Kept(seq, log) ==
    LET saved == SelectSeq([i \in 1..Len(log) |-> i],
                           LAMBDA i : log[i] = "saved")
    IN [k \in 1..Len(saved) |-> seq[saved[k]]]

\* the scrape is over
Scraped == m_pc \in {"summarize", "reddit"}

\* the summaries are over
Summarised == m_pc = "reddit"

\* C13: the pages collected by the scrape are, in order, the entries of
\* exactly the items whose scrape ended in a save, and the summaries
\* collected are, in order, the entries of exactly the pages whose summary
\* ended in a save: an item that met a status other than 200 or an
\* exception leaves no entry; and each stage, once over, has handled every
\* item of its batch whatever happened to the items before.
C13_FailedItemsOmitted ==
    /\ Len(scrape_log) <= Len(relevant_results)
    /\ markdown_contents =
         Kept([i \in 1..Len(relevant_results) |->
                  ScrapedPage(relevant_results[i])], scrape_log)
    /\ Len(summary_log) <= Len(markdown_contents)
    /\ summaries =
         Kept([i \in 1..Len(markdown_contents) |->
                  Summary(markdown_contents[i])], summary_log)
    /\ Scraped => Len(scrape_log) = Len(relevant_results)
    /\ Summarised => Len(summary_log) = Len(markdown_contents)

\* the first of three items failed to scrape and the first of the two pages
\* failed to summarise; one summary is left, that of the third item
C13_Witness ==
    /\ Summarised
    /\ scrape_log = <<"raised", "saved", "saved">>
    /\ summary_log = <<"raised", "saved">>
    /\ Len(summaries) = 1
    /\ summaries[1].url = relevant_results[3].link

\* C17: no file is written twice in a run: the scraped pages and the
\* summaries of any two items of the batch, items of different topics
\* included, go to different paths.
C17_FilesWrittenOnce ==
    \A i, j \in 1..Len(written) : written[i] = written[j] => i = j

----------------------------------------------------------------------------
(* Properties of the run as a whole.                                       *)

\* C14: in a run that starts with a required environment variable not set,
\* no service is ever called over the network (no search, scrape, Reddit or
\* LLM call and no send attempt), no generation step is taken, and the run
\* is either still before the validation or aborted.
C14_AbortsBeforeNetwork ==
    (run_pc # "idle" /\ env # required_environment_variables) =>
        /\ net = {}
        /\ emails = <<>>
        /\ steps = <<>>
        /\ run_pc \in {"validate", "aborted"}

\* a run started without RESEND_API_KEY has been aborted
C14_Witness ==
    /\ run_pc = "aborted"
    /\ env = required_environment_variables \ {"RESEND_API_KEY"}
    /\ net = {}

\* the review loop of the run has ended
LoopEnded == pc \in {"END", "done"}

\* C15: in a dry run no send attempt is ever made; when the review loop
\* has ended, every generation step has been taken, in main's order; and
\* once main is done, the final draft, and nothing else, has been printed,
\* whatever the number of items the stages dropped.
C15_DryRunPrintsNeverSends ==
    (run_pc # "idle" /\ dry_run) =>
        /\ emails = <<>>
        /\ LoopEnded => steps = GenerationSteps
        /\ pc = "done" => stdout = <<final_email(created_summaries)>>
        /\ pc # "done" => stdout = <<>>

\* a dry run is done: of two relevant results one was scraped and none
\* summarised, and the draft was printed
C15_Witness ==
    /\ dry_run
    /\ pc = "done"
    /\ sizes.relevant_results = 2
    /\ sizes.markdown_contents = 1
    /\ sizes.summaries = 0
    /\ Len(stdout) = 1

\* C16: in a live run nothing is printed and nothing is sent before the
\* review loop has ended; the step main takes when the loop has ended is
\* one send attempt with the final draft, after which main is done whether
\* the attempt succeeded or failed; so a run that is done has made exactly
\* one attempt, also when no summary and no Reddit result was produced.
C16_ExactlyOneSendAttempt ==
    (run_pc # "idle" /\ ~dry_run) =>
        /\ stdout = <<>>
        /\ pc # "done" => emails = <<>>
        /\ pc = "done" =>
              /\ Len(emails) = 1
              /\ emails[1].html = final_email(created_summaries)
              /\ run_pc = "deliver"
        /\ pc = "END" => ENABLED send_email

\* a live run without any summary or Reddit result is done after a send
\* attempt that failed
C16_Witness ==
    /\ ~dry_run
    /\ pc = "done"
    /\ run_pc = "deliver"
    /\ sizes.summaries = 0
    /\ sizes.reddit_data = 0
    /\ Len(emails) = 1
    /\ ~emails[1].sent

=============================================================================
